---- MODULE Spec2Model ----
(***************************************************************************)
(* A state-machine model of athany.py: the prayer-time cache               *)
(* (fetch_calender_data), the day/month rollover                           *)
(* (get_main_layout_and_tomorrow_prayers), the queue UPCOMING_PRAYERS and  *)
(* the polling loop of display_main_window, with the start-up code of the  *)
(* module (choose-location window, saved location) around them.            *)
(*                                                                         *)
(* Time is an integer count of sub-instants.  A day has SlotsPerDay        *)
(* "HH:MM" slots and every slot has Sub sub-instants: a prayer time is the *)
(* first sub-instant of its slot, datetime.now() is any sub-instant, and   *)
(* replace(microsecond=0) truncates to the start of the slot.  Every month *)
(* has DaysInMonth days.                                                   *)
(***************************************************************************)
EXTENDS Integers, Sequences, FiniteSets, TLC

\* ------------------------------------------------------------- bounds
DaysInMonth == 2
SlotsPerDay == 7
Sub == 2
\* The most sub-instants that pass between two steps of one handler.
MaxReadGap == 1
\* The download button of the settings window is pressed at most this often.
MaxDownloads == 1
\* The chunks of one athan file (iter_content, line 105).
TotalChunks == 2

\* ------------------------------------------------------------ calendar
MonthsPerYear == 12
TicksPerDay == SlotsPerDay * Sub
\* The clock runs over the first month and the first day of the next.
Horizon == (DaysInMonth + 1) * TicksPerDay
\* The date of instant 0: the first day of a December, so that the next
\* month is in the next year.
Epoch == [year |-> 2024, month |-> 12]

MonthIndex(t) == (t \div TicksPerDay) \div DaysInMonth
YearOf(t) == Epoch.year + ((Epoch.month - 1 + MonthIndex(t)) \div MonthsPerYear)
MonthOf(t) == ((Epoch.month - 1 + MonthIndex(t)) % MonthsPerYear) + 1
DayOf(t) == ((t \div TicksPerDay) % DaysInMonth) + 1
\* now + datetime.timedelta(days=1)
PlusOneDay(t) == t + TicksPerDay
\* datetime.now().replace(microsecond=0)
Truncate(t) == t - (t % Sub)
\* datetime.datetime.strptime(f"{hhmm} {day} {month} {year}", "%H:%M %d %m %Y")
strptime(slot, day, month, year) ==
    LET mi == (year - Epoch.year) * MonthsPerYear + (month - Epoch.month)
    IN ((mi * DaysInMonth + (day - 1)) * SlotsPerDay + slot) * Sub

\* ------------------------------------------------------ remote service
None == "None"
RequestError == "RequestError"
Locations == {<<"Cairo", "Egypt">>, <<"Tromso", "Norway">>}
\* The locations https://ipinfo.io can name.
IpLocations == { << "Cairo", "Egypt" >> }
FUROOD_NAMES == {"Fajr", "Dhuhr", "Asr", "Maghrib", "Isha"}

\* The "timings" object of one day, in the order of the service's JSON.
\* The times of Cairo ascend; in Tromso, on every other day, Isha falls
\* after midnight and is reported as an early time of day.
DayTimings(cit, d) ==
    LET isha == IF cit = "Tromso" /\ d % 2 = 1 THEN 0 ELSE 6
    IN << [name |-> "Fajr", time |-> 1], [name |-> "Sunrise", time |-> 2],
          [name |-> "Dhuhr", time |-> 3], [name |-> "Asr", time |-> 4],
          [name |-> "Sunset", time |-> 5], [name |-> "Maghrib", time |-> 5],
          [name |-> "Isha", time |-> isha], [name |-> "Midnight", time |-> 0] >>

HijriOf(y, m, d) == [weekday |-> d, day |-> d, month |-> m, year |-> y]

\* The parsed calendarByCity response for one month.
MonthJson(cit, y, m) ==
    [data |-> [d \in 1..DaysInMonth |->
                  [timings |-> DayTimings(cit, d),
                   date |-> [hijri |-> HijriOf(y, m, d)]]]]

\* What one HTTP request can come to: the request raises, the status is not
\* 200, or the status is 200 with the month's calendar ("ok") or with a body
\* that is not JSON ("garbage").
Bodies == {"ok", "garbage"}
NetOutcomes == {"raise", "non200"} \cup Bodies

\* res.text: the JSON text of the calendar of (cit, y, m), or text that
\* json.load cannot parse.  A text is kept as what it is the text of.
ResText(cit, y, m, body) ==
    [wellformed |-> body # "garbage", city |-> cit, year |-> y, month |-> m]
\* json.load(month_prayers) of a well-formed text
JsonLoad(text) == MonthJson(text.city, text.year, text.month)

\* Values of api_res / m_data: the two failure values and a month schedule.
Failure(tag) == [tag |-> tag, data |-> <<>>]
Schedule(json) == [tag |-> "schedule", data |-> json.data]
IsSchedule(res) == res.tag = "schedule"

\* ------------------------------------------------------------- the cache
\* f"{date.year}-{date.month}-{cit}-{count}.json"
json_month_file(cit, count, y, m) == <<y, m, cit, count>>

NetworkNeededMutant(fs, key) == TRUE
\* `if not os.path.exists(json_month_file)`
NetworkNeeded(fs, key) == key \notin DOMAIN fs

NoFiles == [k \in {} |-> 0]
WriteFile(fs, key, text) == [k \in DOMAIN fs \cup {key} |-> IF k = key THEN text ELSE fs[k]]
RemoveFile(fs, key) == [k \in DOMAIN fs \ {key} |-> fs[k]]

\* The call's result: the returned value (ret), the exception it raised if
\* any (exc), the files after it, and whether it made a network request.
FetchResult(ret, exc, fs, key, requested) ==
    [ret |-> ret, exc |-> exc, files |-> fs, key |-> key, requested |-> requested]

fetch_calender_data_StatusMutant(fs, cit, count, y, m, o) ==
    LET key == json_month_file(cit, count, y, m)
        miss == NetworkNeeded(fs, key)
    IN IF miss /\ o \in {"raise", "non200"}
       THEN FetchResult(Failure(RequestError), "none", fs, key, TRUE)
       ELSE LET fs2 == IF miss THEN WriteFile(fs, key, ResText(cit, y, m, o)) ELSE fs
            IN IF fs2[key].wellformed
               THEN FetchResult(Schedule(JsonLoad(fs2[key])), "none", fs2, key, miss)
               ELSE FetchResult(Failure(None), "JSONDecodeError", fs2, key, miss)

fetch_calender_data(fs, cit, count, y, m, o) ==
    LET key == json_month_file(cit, count, y, m)
        miss == NetworkNeeded(fs, key)
    IN IF miss /\ o = "raise"
       THEN FetchResult(Failure(RequestError), "none", fs, key, TRUE)
       ELSE IF miss /\ o = "non200"
       THEN FetchResult(Failure(None), "none", fs, key, TRUE)
       ELSE LET fs2 == IF miss THEN WriteFile(fs, key, ResText(cit, y, m, o)) ELSE fs
            IN IF fs2[key].wellformed
               THEN FetchResult(Schedule(JsonLoad(fs2[key])), "none", fs2, key, miss)
               ELSE FetchResult(Failure(None), "JSONDecodeError", fs2, key, miss)

\* get_hijri_date_from_json: the Hijri date of date.day in api_res, as the
\* text "<weekday> <day> <month> <year>".
get_hijri_date_from_json(date, res) ==
    LET h == res.data[DayOf(date)].date.hijri
    IN <<h.weekday, h.day, h.month, h.year>>

\* --------------------------------------------------------------- athans
\* The options of the settings window's drop-down (available_adhans.txt).
AVAILABLE_ADHANS == {"Default", "Makkah"}
\* Line 424: f"{option.replace(' ', '_')}.wav"
AthanFilename(option) == << option, "wav" >>
\* ATHANS_DIR as shipped: Default.wav, whole.
DefaultAthans == [f \in { AthanFilename("Default") } |-> TotalChunks]

\* What one download can come to: the request raises; the response has no
\* content-length; Cancel is pressed after a chunk was written; the stream
\* breaks before the next chunk; or every chunk is written.
DownloadOutcomes ==
    { [kind |-> k, written |-> 0] : k \in {"request_raises", "no_length"} } \cup
    { [kind |-> "cancel", written |-> n] : n \in 1..TotalChunks } \cup
    { [kind |-> "stream_error", written |-> n] : n \in 0..(TotalChunks - 1) } \cup
    { [kind |-> "complete", written |-> TotalChunks] }

DownloadResult(ret, exc, dir) == [ret |-> ret, exc |-> exc, athans |-> dir]

\* Lines 120-122: `except: os.remove(saved_file); return False`; os.remove
\* of a file that does not exist raises inside the handler.
RemoveAndReturnFalse(dir, name) ==
    IF name \in DOMAIN dir
    THEN DownloadResult(FALSE, "none", RemoveFile(dir, name))
    ELSE DownloadResult(FALSE, "FileNotFoundError", dir)

download_athan_KeepsPartial(dir, name, o) ==
    IF o.kind \in {"request_raises", "no_length"}
    THEN RemoveAndReturnFalse(dir, name)
    ELSE DownloadResult(o.kind = "complete", "none", WriteFile(dir, name, o.written))

\* Lines 84-122: download_athan.
download_athan(dir, name, o) ==
    IF o.kind \in {"request_raises", "no_length"}
    THEN \* lines 91-93 raise before the file is opened
         RemoveAndReturnFalse(dir, name)
    ELSE LET written == WriteFile(dir, name, o.written)
         IN IF o.kind = "complete"
            THEN DownloadResult(TRUE, "none", written)
            ELSE \* line 113, or iter_content raising: the file is closed
                 RemoveAndReturnFalse(written, name)

\* ------------------------------------------------------------ the state
VARIABLES
    pc,                 \* the position of the program
    fault,              \* the exception that ended the process, or "none"
    clock,              \* the wall clock, in sub-instants since Epoch
    settings,           \* the persisted '-city-' and '-country-' entries
    mute,               \* the persisted '-mute-athan-' entry
    files,              \* the month files of DATA_DIR: key -> text
    location_api,       \* the module's location_api
    save_loc_check,     \* the module's save_loc_check
    UPCOMING_PRAYERS,   \* the module's queue of [name, time]
    api_res,            \* get_main_layout_and_tomorrow_prayers: api_res
    gm_now,             \*   its now (line 195)
    current_times,      \*   its current_times
    ISHA_PASSED,        \*   its ISHA_PASSED
    gm_ret,             \*   its caller: "startup" or "loop"
    now,                \* display_main_window: now (line 301)
    current_month_data, \*   its current_month_data
    end_of_month_hijri, \*   its end_of_month_hijri
    win2_active,        \*   its win2_active: the settings window is open
    toggle_graphic,     \*   the metadata of the settings window's save-location toggle
    window,             \*   what the running tick has put in the main window
    emitted,            \*   the notifications and audio of the running tick
    last_fard,          \*   its fard: the entry the running tick has popped (line 305)
    calls,              \* the fetch_calender_data calls of the running handler
    gap,                \* the time passed since the running handler's last step
    downloads,          \* the presses of the download button so far
    athans,             \* the files of ATHANS_DIR: file name -> chunks written
    athan_sound,        \* the persisted '-athan_sound-' entry
    athan_dl            \* the athan selection of the running handler, if any

vars == << pc, fault, clock, settings, mute, files, location_api, save_loc_check,
           UPCOMING_PRAYERS, api_res, gm_now, current_times, ISHA_PASSED, gm_ret,
           now, current_month_data, end_of_month_hijri, win2_active, toggle_graphic,
           window, emitted, last_fard, calls, gap, downloads, athans, athan_sound, athan_dl >>

gmLocals == << gm_now, current_times, ISHA_PASSED >>
audioVars == << athans, athan_sound, athan_dl >>
loopLocals == << now, current_month_data, end_of_month_hijri, win2_active,
                 toggle_graphic, window, emitted, last_fard >>

NoSettings == [city |-> None, country |-> None]
SettingsOf(loc) == [city |-> loc[1], country |-> loc[2]]
LocError == << RequestError >>
NoHijri == << >>
NoWindow == [next_prayer |-> None, time_d |-> 0, today_hijri |-> NoHijri]
NoFard == [name |-> None, time |-> 0]
NoSelection == [name |-> << >>, existed |-> FALSE, outcome |-> "none", written |-> 0,
                downloaded |-> "none", exc |-> "none", played |-> "none"]

\* The record kept of one fetch_calender_data call: where it was made, what
\* the network would answer, whether the file existed before, the result.
Call(site, o, fs, r) ==
    [site |-> site, outcome |-> o, existed |-> r.key \in DOMAIN fs, key |-> r.key,
     requested |-> r.requested, ret |-> r.ret, exc |-> r.exc]

\* The state when the process starts: nothing saved (a first launch), or a
\* location saved by an earlier session, with or without the file of the
\* current month.
InitWith(start, savedSettings, savedFiles) ==
    /\ pc = "init"
    /\ fault = "none"
    /\ clock = start
    /\ settings \in savedSettings
    /\ mute = FALSE
    /\ files \in savedFiles
    /\ win2_active = FALSE
    /\ toggle_graphic = FALSE
    /\ location_api = LocError
    /\ save_loc_check = FALSE
    /\ UPCOMING_PRAYERS = << >>
    /\ api_res = Failure(None)
    /\ gm_now = 0
    /\ current_times = << >>
    /\ ISHA_PASSED = FALSE
    /\ gm_ret = "startup"
    /\ now = 0
    /\ current_month_data = Failure(None)
    /\ end_of_month_hijri = NoHijri
    /\ window = NoWindow
    /\ emitted = << >>
    /\ last_fard = NoFard
    /\ calls = << >>
    /\ gap = 0
    /\ downloads = 0
    /\ athans = DefaultAthans
    /\ athan_sound = AthanFilename("Default")
    /\ athan_dl = NoSelection

Init ==
    InitWith(0, {NoSettings} \cup {SettingsOf(loc) : loc \in Locations},
             { NoFiles } \cup
             { WriteFile(NoFiles,
                         json_month_file(loc[1], loc[2], YearOf(0), MonthOf(0)),
                         ResText(loc[1], YearOf(0), MonthOf(0), body)) :
               loc \in Locations, body \in Bodies })

\* An uncaught exception ends the process where it is raised.
Crash(exc) ==
    /\ pc' = "crashed"
    /\ fault' = exc

\* The positions whose next step reads the clock (datetime.now()); a step
\* from any other position does not depend on the time that passed before it.
ClockReaders == {"saved_fetch", "choose_location", "gm_enter", "gm_isha", "loop"}

\* Between two handlers (two ticks of the loop, two events of the location
\* window, the start of the process) any time may pass; inside a handler
\* at most MaxReadGap.
BetweenHandlers == {"saved_fetch", "choose_location", "loop"}

\* Time passes.
Advance ==
    /\ pc \in ClockReaders
    /\ pc \in BetweenHandlers \/ gap < MaxReadGap
    /\ gap' = IF pc \in BetweenHandlers THEN 0 ELSE gap + 1
    /\ clock + 1 < Horizon
    /\ clock' = clock + 1
    /\ UNCHANGED << pc, fault, settings, mute, files, location_api, save_loc_check,
                    UPCOMING_PRAYERS, api_res, gmLocals, gm_ret, loopLocals, calls,
                    downloads, audioVars >>

\* ------------------------------------------------------------- start-up
\* get_current_location(): the (city, country) of the IP, or "RequestError".
get_current_location == { LocError } \cup IpLocations

\* Lines 503-516 and 594-595: the module's start, up to the branch on the
\* saved location.
Start ==
    /\ pc = "init"
    /\ gap' = 0
    /\ UNCHANGED << downloads, audioVars >>
    /\ IF settings.city = None /\ settings.country = None
       THEN /\ location_api' \in get_current_location
            /\ pc' = "choose_location"
            /\ UNCHANGED save_loc_check
       ELSE \* location_api is read by the choose-location window only
            /\ UNCHANGED location_api
            /\ pc' = "saved_fetch"
            /\ save_loc_check' = TRUE
    /\ UNCHANGED << fault, clock, settings, mute, files, UPCOMING_PRAYERS, api_res,
                    gmLocals, gm_ret, loopLocals, calls >>

StartSavedDropsSettings ==
    /\ pc = "saved_fetch"
    /\ gap' = 0
    /\ UNCHANGED << downloads, audioVars >>
    /\ \E o \in NetOutcomes :
         LET r == fetch_calender_data(files, settings.city, settings.country,
                                      YearOf(clock), MonthOf(clock), o)
         IN /\ files' = r.files
            /\ calls' = << Call("saved", o, files, r) >>
            /\ settings' = IF r.ret = Failure(RequestError) THEN NoSettings ELSE settings
            /\ IF r.exc # "none"
               THEN Crash(r.exc) /\ UNCHANGED << api_res, gm_ret >>
               ELSE /\ api_res' = r.ret
                    /\ gm_ret' = "startup"
                    /\ pc' = "gm_enter"
                    /\ UNCHANGED fault
    /\ UNCHANGED << clock, mute, location_api, save_loc_check,
                    UPCOMING_PRAYERS, gmLocals, loopLocals >>

\* Lines 596-600: the saved location's month is fetched and handed to
\* get_main_layout_and_tomorrow_prayers, whatever the fetch returned.
StartSaved ==
    /\ pc = "saved_fetch"
    /\ gap' = 0
    /\ UNCHANGED << downloads, audioVars >>
    /\ \E o \in NetOutcomes :
         LET r == fetch_calender_data(files, settings.city, settings.country,
                                      YearOf(clock), MonthOf(clock), o)
         IN /\ files' = r.files
            /\ calls' = << Call("saved", o, files, r) >>
            /\ IF r.exc # "none"
               THEN Crash(r.exc) /\ UNCHANGED << api_res, gm_ret >>
               ELSE /\ api_res' = r.ret
                    /\ gm_ret' = "startup"
                    /\ pc' = "gm_enter"
                    /\ UNCHANGED fault
    /\ UNCHANGED << clock, settings, mute, location_api, save_loc_check,
                    UPCOMING_PRAYERS, gmLocals, loopLocals >>

\* Lines 541-590: what the choose-location window does with the (city,
\* country) of an Ok or a Use-current-location event and the Save-settings
\* check-box: the entries are set when the fetch returned a schedule.
PersistLocationEarly(loc, m_data) == SettingsOf(loc)
PersistLocation(loc, m_data) ==
    IF IsSchedule(m_data) THEN SettingsOf(loc) ELSE settings

FetchChosenLocation(loc, check) ==
    \E o \in NetOutcomes :
       LET r == fetch_calender_data(files, loc[1], loc[2],
                                    YearOf(clock), MonthOf(clock), o)
       IN /\ files' = r.files
          /\ calls' = << Call("window", o, files, r) >>
          /\ IF r.exc # "none"
             THEN Crash(r.exc) /\ UNCHANGED << settings, save_loc_check, api_res, gm_ret >>
             ELSE /\ settings' = PersistLocation(loc, r.ret)
                  /\ UNCHANGED fault
                  /\ IF IsSchedule(r.ret)
                     THEN /\ save_loc_check' = check
                          /\ api_res' = r.ret
                          /\ gm_ret' = "startup"
                          /\ pc' = "gm_enter"
                     ELSE \* `continue`, or the "Internet connection required" text
                          UNCHANGED << pc, save_loc_check, api_res, gm_ret >>

\* Lines 533-552: the Ok button with a city and a country typed in.
LocationOk ==
    /\ pc = "choose_location"
    /\ gap' = 0
    /\ UNCHANGED << downloads, audioVars >>
    /\ \E loc \in Locations, check \in BOOLEAN : FetchChosenLocation(loc, check)
    /\ UNCHANGED << clock, mute, location_api, UPCOMING_PRAYERS, gmLocals, loopLocals >>

\* Lines 554-572: the Use-current-location button.
LocationUseCurrent ==
    /\ pc = "choose_location"
    /\ gap' = 0
    /\ UNCHANGED << downloads, audioVars >>
    /\ \E la \in get_current_location :
          /\ location_api' = IF location_api = LocError THEN la ELSE location_api
          /\ IF location_api' = LocError
             THEN /\ calls' = << >>
                  /\ UNCHANGED << pc, fault, settings, files, save_loc_check,
                                  api_res, gm_ret >>
             ELSE \E check \in BOOLEAN : FetchChosenLocation(location_api', check)
    /\ UNCHANGED << clock, mute, UPCOMING_PRAYERS, gmLocals, loopLocals >>

\* Lines 527-529: Cancel, or the window is closed.
LocationCancel ==
    /\ pc = "choose_location"
    /\ gap' = 0
    /\ UNCHANGED << downloads, audioVars >>
    /\ pc' = "sys_exit"
    /\ calls' = << >>
    /\ UNCHANGED << fault, clock, settings, mute, files, location_api, save_loc_check,
                    UPCOMING_PRAYERS, api_res, gmLocals, gm_ret, loopLocals >>

\* ----------------------------- get_main_layout_and_tomorrow_prayers
\* seq[i] of Python, i counted from 0.
PyIndex(seq, i) == seq[i + 1]
\* current_times[name]
TimingOf(times, name) ==
    LET i == CHOOSE j \in 1..Len(times) : times[j].name = name
    IN times[i].time
\* strptime(f"{hhmm} {date.day} {date.month} {date.year}", ...)
BindTo(slot, date) == strptime(slot, DayOf(date), MonthOf(date), YearOf(date))

\* Line 205: `datetime.datetime.now() > <today's Isha>`
IshaHasPassed(t, isha) == t > isha

\* Line 207: `tomorrow.day < now.day`
IsLastDayOfMonth(t) == DayOf(PlusOneDay(t)) < DayOf(t)

\* Line 197: api_res["data"][now.day-1]["timings"]
SameDayTimings(res, t) == PyIndex(res.data, DayOf(t) - 1).timings

NextDayTimingsSameDay(res, t) == PyIndex(res.data, DayOf(t) - 1).timings
\* Line 221: api_res["data"][now.day]["timings"]
NextDayTimings(res, t) == PyIndex(res.data, DayOf(t)).timings

\* Line 255: `if now < time`
IsUpcoming(t, time) == t < time

\* Line 250: `prayer in FUROOD_NAMES or prayer == "Sunrise"`
IsShownAnyName(name) == TRUE
IsShown(name) == name \in FUROOD_NAMES \/ name = "Sunrise"

\* Lines 226-231: every timing of the day bound to the date.
BoundTimes(times, date) ==
    [i \in 1..Len(times) |-> [name |-> times[i].name, time |-> BindTo(times[i].time, date)]]

\* Lines 248-256: the entries appended to UPCOMING_PRAYERS.
NewUpcoming(bound, t) ==
    SelectSeq(bound, LAMBDA e : IsShown(e.name) /\ IsUpcoming(t, e.time))

\* Lines 195-197: now is read and today's timings are looked up in api_res.
GM_Enter ==
    /\ pc = "gm_enter"
    /\ gap' = 0
    /\ UNCHANGED << downloads, audioVars >>
    /\ gm_now' = clock
    /\ IF IsSchedule(api_res)
       THEN /\ current_times' = SameDayTimings(api_res, clock)
            /\ pc' = "gm_isha"
            /\ UNCHANGED fault
       ELSE \* None["data"], "RequestError"["data"]
            Crash("TypeError") /\ UNCHANGED current_times
    /\ UNCHANGED << clock, settings, mute, files, location_api, save_loc_check,
                    UPCOMING_PRAYERS, api_res, ISHA_PASSED, gm_ret, loopLocals, calls >>

\* Lines 200-213 and 220-223: the clock is read again and compared with
\* today's Isha; past it, the next day's timings are taken from the same
\* month, or on the last day of the month the next month is fetched.
GM_IshaCheck ==
    /\ pc = "gm_isha"
    /\ gap' = 0
    /\ UNCHANGED << downloads, audioVars >>
    /\ LET isha == BindTo(TimingOf(current_times, "Isha"), gm_now)
           tomorrow == PlusOneDay(gm_now)
       IN IF IshaHasPassed(clock, isha)
          THEN IF IsLastDayOfMonth(gm_now)
               THEN \E o \in NetOutcomes :
                      LET r == fetch_calender_data(files, settings.city, settings.country,
                                                   YearOf(tomorrow), MonthOf(tomorrow), o)
                      IN /\ files' = r.files
                         /\ calls' = Append(calls, Call("new_month", o, files, r))
                         /\ ISHA_PASSED' = FALSE
                         /\ UNCHANGED current_times
                         /\ IF r.exc # "none"
                            THEN Crash(r.exc) /\ UNCHANGED << api_res, settings >>
                            ELSE /\ api_res' = r.ret
                                 /\ UNCHANGED fault
                                 /\ IF r.ret = Failure(RequestError)
                                    THEN /\ settings' = NoSettings
                                         /\ pc' = "sys_exit"
                                    ELSE /\ pc' = "gm_new_month"
                                         /\ UNCHANGED settings
               ELSE /\ current_times' = NextDayTimings(api_res, gm_now)
                    /\ ISHA_PASSED' = TRUE
                    /\ pc' = "gm_bind"
                    /\ UNCHANGED << fault, settings, files, api_res, calls >>
          ELSE /\ ISHA_PASSED' = FALSE
               /\ pc' = "gm_bind"
               /\ UNCHANGED << fault, settings, files, api_res, current_times, calls >>
    /\ UNCHANGED << clock, mute, location_api, save_loc_check, UPCOMING_PRAYERS,
                    gm_now, gm_ret, loopLocals >>

GM_NewMonthRemoveFirst ==
    /\ pc = "gm_new_month"
    /\ gap' = 0
    /\ UNCHANGED << downloads, audioVars >>
    /\ LET tomorrow == PlusOneDay(gm_now)
           old == json_month_file(settings.city, settings.country,
                                  YearOf(gm_now), MonthOf(gm_now))
       IN IF old \notin DOMAIN files
          THEN Crash("FileNotFoundError") /\ UNCHANGED << files, current_times, ISHA_PASSED >>
          ELSE /\ files' = RemoveFile(files, old)
               /\ IF ~IsSchedule(api_res)
                  THEN Crash("TypeError") /\ UNCHANGED << current_times, ISHA_PASSED >>
                  ELSE /\ current_times' = PyIndex(api_res.data, DayOf(tomorrow) - 1).timings
                       /\ ISHA_PASSED' = TRUE
                       /\ pc' = "gm_bind"
                       /\ UNCHANGED fault
    /\ UNCHANGED << clock, settings, mute, location_api, save_loc_check,
                    UPCOMING_PRAYERS, api_res, gm_now, gm_ret, loopLocals, calls >>

\* Lines 215-223: the first day of the new month is looked up and the file
\* of the month of now is removed.
GM_NewMonth ==
    /\ pc = "gm_new_month"
    /\ gap' = 0
    /\ UNCHANGED << downloads, audioVars >>
    /\ LET tomorrow == PlusOneDay(gm_now)
           old == json_month_file(settings.city, settings.country,
                                  YearOf(gm_now), MonthOf(gm_now))
       IN IF ~IsSchedule(api_res)
          THEN \* None["data"]
               Crash("TypeError") /\ UNCHANGED << files, current_times, ISHA_PASSED >>
          ELSE /\ current_times' = PyIndex(api_res.data, DayOf(tomorrow) - 1).timings
               /\ IF old \in DOMAIN files
                  THEN /\ files' = RemoveFile(files, old)
                       /\ ISHA_PASSED' = TRUE
                       /\ pc' = "gm_bind"
                       /\ UNCHANGED fault
                  ELSE Crash("FileNotFoundError") /\ UNCHANGED << files, ISHA_PASSED >>
    /\ UNCHANGED << clock, settings, mute, location_api, save_loc_check,
                    UPCOMING_PRAYERS, api_res, gm_now, gm_ret, loopLocals, calls >>

\* Lines 226-268: the timings are bound to today's or tomorrow's date, the
\* upcoming ones are appended to the queue, and the function returns to the
\* module (which enters display_main_window) or to the loop (line 322).
GM_Bind ==
    /\ pc = "gm_bind"
    /\ gap' = 0
    /\ UNCHANGED << downloads, audioVars >>
    /\ LET date == IF ISHA_PASSED THEN PlusOneDay(gm_now) ELSE gm_now
           bound == BoundTimes(current_times, date)
       IN UPCOMING_PRAYERS' = UPCOMING_PRAYERS \o NewUpcoming(bound, gm_now)
    /\ current_month_data' = api_res
    /\ pc' = IF gm_ret = "startup" THEN "loop" ELSE "display"
    \* the function's locals end with the call
    /\ api_res' = Failure(None)
    /\ gm_now' = 0
    /\ current_times' = << >>
    /\ ISHA_PASSED' = FALSE
    /\ UNCHANGED << fault, clock, settings, mute, files, location_api, save_loc_check,
                    gm_ret, now, end_of_month_hijri, win2_active, toggle_graphic,
                    window, emitted, last_fard, calls >>

\* ------------------------------------------------- display_main_window
\* Line 303: `now >= UPCOMING_PRAYERS[0][1]`
HasElapsedStrict(t, time) == t > time
HasElapsed(t, time) == t >= time

EmitsIgnoringMute(fard, muted, playOk) ==
    IF fard.name # "Sunrise"
    THEN << [kind |-> "notify", name |-> fard.name],
            [kind |-> IF playOk THEN "athan" ELSE "athan_failed", name |-> fard.name] >>
    ELSE << >>

\* Lines 307-317: what popping fard emits: the tray message unless it is
\* Sunrise, and with it the athan unless muted (a failure to play is
\* caught and printed).
Emits(fard, muted, playOk) ==
    IF fard.name # "Sunrise"
    THEN << [kind |-> "notify", name |-> fard.name] >> \o
         (IF ~muted
          THEN << [kind |-> IF playOk THEN "athan" ELSE "athan_failed", name |-> fard.name] >>
          ELSE << >>)
    ELSE << >>

\* UPCOMING_PRAYERS.pop(0)
Pop(queue) == Tail(queue)

NeedsRolloverAlways(queue) == TRUE
\* Line 319: `if len(UPCOMING_PRAYERS) == 0`
NeedsRollover(queue) == Len(queue) = 0

FrontOfEmptyQueueDefault == pc' = "events" /\ fault' = fault
\* Lines 303 and 329: UPCOMING_PRAYERS[0] of an empty list raises IndexError.
FrontOfEmptyQueue == Crash("IndexError")

\* Lines 301-319: now is read; the front entry is popped when it has
\* elapsed; an emptied queue sends the tick into the rollover.
LoopTop ==
    /\ pc = "loop"
    /\ gap' = 0
    /\ athan_dl' = NoSelection
    /\ UNCHANGED << downloads, athans, athan_sound >>
    /\ now' = Truncate(clock)
    /\ calls' = << >>
    /\ IF UPCOMING_PRAYERS = << >>
       THEN FrontOfEmptyQueue /\ UNCHANGED << UPCOMING_PRAYERS, emitted, last_fard >>
       ELSE /\ UNCHANGED fault
            /\ IF HasElapsed(now', UPCOMING_PRAYERS[1].time)
               THEN /\ UPCOMING_PRAYERS' = Pop(UPCOMING_PRAYERS)
                    /\ last_fard' = UPCOMING_PRAYERS[1]
                    /\ \E playOk \in BOOLEAN :
                          emitted' = Emits(UPCOMING_PRAYERS[1], mute, playOk)
                    /\ pc' = IF NeedsRollover(UPCOMING_PRAYERS') THEN "rollover" ELSE "display"
               ELSE /\ pc' = "display"
                    /\ emitted' = << >>
                    /\ last_fard' = NoFard
                    /\ UNCHANGED UPCOMING_PRAYERS
    /\ UNCHANGED << clock, settings, mute, files, location_api, save_loc_check, api_res,
                    gmLocals, gm_ret, current_month_data, end_of_month_hijri,
                    win2_active, toggle_graphic, window >>

\* Lines 320-321: the month of now is fetched for the saved location and
\* handed to get_main_layout_and_tomorrow_prayers.
Rollover ==
    /\ pc = "rollover"
    /\ gap' = 0
    /\ UNCHANGED << downloads, audioVars >>
    /\ \E o \in NetOutcomes :
         LET r == fetch_calender_data(files, settings.city, settings.country,
                                      YearOf(now), MonthOf(now), o)
         IN /\ files' = r.files
            /\ calls' = Append(calls, Call("rollover", o, files, r))
            /\ IF r.exc # "none"
               THEN Crash(r.exc) /\ UNCHANGED << api_res, gm_ret >>
               ELSE /\ api_res' = r.ret
                    /\ gm_ret' = "loop"
                    /\ pc' = "gm_enter"
                    /\ UNCHANGED fault
    /\ UNCHANGED << clock, settings, mute, location_api, save_loc_check,
                    UPCOMING_PRAYERS, gmLocals, loopLocals >>

\* Lines 329-354: the time remaining and the Hijri date are shown; while
\* now and the front entry are in different months the Hijri date comes
\* from a fetch of now's month, made once.
Display ==
    /\ pc = "display"
    /\ gap' = 0
    /\ UNCHANGED << downloads, audioVars >>
    /\ IF UPCOMING_PRAYERS = << >>
       THEN FrontOfEmptyQueue /\ UNCHANGED << files, end_of_month_hijri, window, calls >>
       ELSE LET front == UPCOMING_PRAYERS[1]
                Shown(hijri) == [next_prayer |-> front.name,
                                 time_d |-> front.time - now,
                                 today_hijri |-> hijri]
            IN IF MonthOf(now) = MonthOf(front.time)
               THEN /\ end_of_month_hijri' = NoHijri
                    /\ UNCHANGED << files, calls >>
                    /\ IF IsSchedule(current_month_data)
                       THEN /\ window' = Shown(get_hijri_date_from_json(now, current_month_data))
                            /\ pc' = "events"
                            /\ UNCHANGED fault
                       ELSE Crash("TypeError") /\ UNCHANGED window
               ELSE IF end_of_month_hijri = NoHijri
               THEN \E o \in NetOutcomes :
                      LET r == fetch_calender_data(files, settings.city, settings.country,
                                                   YearOf(now), MonthOf(now), o)
                      IN /\ files' = r.files
                         /\ calls' = Append(calls, Call("hijri", o, files, r))
                         /\ IF r.exc # "none"
                            THEN Crash(r.exc) /\ UNCHANGED << end_of_month_hijri, window >>
                            ELSE IF ~IsSchedule(r.ret)
                            THEN Crash("TypeError") /\ UNCHANGED << end_of_month_hijri, window >>
                            ELSE /\ end_of_month_hijri' = get_hijri_date_from_json(now, r.ret)
                                 /\ window' = Shown(end_of_month_hijri')
                                 /\ pc' = "events"
                                 /\ UNCHANGED fault
               ELSE /\ window' = Shown(end_of_month_hijri)
                    /\ pc' = "events"
                    /\ UNCHANGED << fault, files, end_of_month_hijri, calls >>
    /\ UNCHANGED << clock, settings, mute, location_api, save_loc_check, UPCOMING_PRAYERS,
                    api_res, gmLocals, gm_ret, now, current_month_data, win2_active,
                    toggle_graphic, emitted, last_fard >>

\* The end of a tick: the next one overwrites what this one read, showed
\* and emitted.
EndTick ==
    /\ pc' = "loop"
    /\ now' = 0
    /\ window' = NoWindow
    /\ emitted' = << >>
    /\ last_fard' = NoFard
    /\ calls' = << >>

\* After the main window's event the settings window, if open, is read.
AfterEvent1 ==
    IF win2_active'
    THEN /\ pc' = "events2"
         /\ UNCHANGED << now, window, emitted, last_fard, calls >>
    ELSE EndTick

\* Lines 357-381 with no event, or one that changes nothing the core reads
\* (hide, show, stop athan).
EventNone ==
    /\ pc = "events"
    /\ gap' = 0
    /\ UNCHANGED << downloads, audioVars >>
    /\ UNCHANGED << win2_active, toggle_graphic >>
    /\ AfterEvent1
    /\ UNCHANGED << fault, clock, settings, mute, files, location_api, save_loc_check,
                    UPCOMING_PRAYERS, api_res, gmLocals, gm_ret, current_month_data,
                    end_of_month_hijri >>

\* Lines 383-410: Settings opens the settings window.
EventSettings ==
    /\ pc = "events"
    /\ gap' = 0
    /\ UNCHANGED << downloads, audioVars >>
    /\ ~win2_active
    /\ win2_active' = TRUE
    /\ toggle_graphic' = save_loc_check
    /\ AfterEvent1
    /\ UNCHANGED << fault, clock, settings, mute, files, location_api, save_loc_check,
                    UPCOMING_PRAYERS, api_res, gmLocals, gm_ret, current_month_data,
                    end_of_month_hijri >>

\* Lines 365-366, 495-498 and 610-613: Exit leaves the loop and the
\* function; a location the user did not want saved is deleted and the
\* process ends, and with it everything it held in memory.
EventExit ==
    /\ pc = "events"
    /\ gap' = 0
    /\ UNCHANGED << downloads, audioVars >>
    /\ settings' = IF ~save_loc_check /\ settings.city # None /\ settings.country # None
                   THEN NoSettings ELSE settings
    /\ pc' = "done"
    /\ location_api' = LocError
    /\ save_loc_check' = FALSE
    /\ UPCOMING_PRAYERS' = << >>
    /\ now' = 0
    /\ current_month_data' = Failure(None)
    /\ end_of_month_hijri' = NoHijri
    /\ win2_active' = FALSE
    /\ toggle_graphic' = FALSE
    /\ window' = NoWindow
    /\ emitted' = << >>
    /\ last_fard' = NoFard
    /\ calls' = << >>
    /\ UNCHANGED << fault, clock, mute, files, api_res, gmLocals, gm_ret >>

\* ------------------------------------------------- the settings window
\* Line 414 with no event of the settings window.
SettingsNone ==
    /\ pc = "events2"
    /\ gap' = 0
    /\ UNCHANGED << downloads, audioVars >>
    /\ EndTick
    /\ UNCHANGED << fault, clock, settings, mute, files, location_api, save_loc_check,
                    UPCOMING_PRAYERS, api_res, gmLocals, gm_ret, current_month_data,
                    end_of_month_hijri, win2_active, toggle_graphic >>

\* Lines 415-418: Done closes the window and takes the toggle's value.
SettingsDone ==
    /\ pc = "events2"
    /\ gap' = 0
    /\ UNCHANGED << downloads, audioVars >>
    /\ win2_active' = FALSE
    /\ save_loc_check' = toggle_graphic
    /\ toggle_graphic' = FALSE
    /\ EndTick
    /\ UNCHANGED << fault, clock, settings, mute, files, location_api,
                    UPCOMING_PRAYERS, api_res, gmLocals, gm_ret, current_month_data,
                    end_of_month_hijri >>

\* Lines 483-486: the save-location toggle.
SettingsToggleGraphic ==
    /\ pc = "events2"
    /\ gap' = 0
    /\ UNCHANGED << downloads, audioVars >>
    /\ toggle_graphic' = ~toggle_graphic
    /\ EndTick
    /\ UNCHANGED << fault, clock, settings, mute, files, location_api, save_loc_check,
                    UPCOMING_PRAYERS, api_res, gmLocals, gm_ret, current_month_data,
                    end_of_month_hijri, win2_active >>

\* Lines 488-493: the mute toggle, written to the settings at once.
SettingsToggleMute ==
    /\ pc = "events2"
    /\ gap' = 0
    /\ UNCHANGED << downloads, audioVars >>
    /\ mute' = ~mute
    /\ EndTick
    /\ UNCHANGED << fault, clock, settings, files, location_api, save_loc_check,
                    UPCOMING_PRAYERS, api_res, gmLocals, gm_ret, current_month_data,
                    end_of_month_hijri, win2_active, toggle_graphic >>

\* The record kept of one athan selection: the file chosen, whether it was
\* in ATHANS_DIR, what the download came to and returned, and whether
\* play_selected_athan was called and played.
Selection(name, existed, o, d, played) ==
    [name |-> name, existed |-> existed,
     outcome |-> IF existed THEN "none" ELSE o.kind,
     written |-> IF existed THEN 0 ELSE o.written,
     downloaded |-> IF existed \/ d.exc # "none" THEN "none"
                    ELSE IF d.ret THEN "True" ELSE "False",
     exc |-> d.exc, played |-> played]

\* Lines 420-463: an athan is chosen in the drop-down: one already in
\* ATHANS_DIR is set and played; another is downloaded first, and set and
\* played when download_athan returned True.  play_selected_athan is called
\* outside any try.
SettingsSelectAthan ==
    /\ pc = "events2"
    /\ gap' = 0
    /\ \E option \in AVAILABLE_ADHANS, playOk \in BOOLEAN, o \in DownloadOutcomes :
         LET choosen_athan == AthanFilename(option)
             existed == choosen_athan \in DOMAIN athans
             d == IF existed THEN DownloadResult(TRUE, "none", athans)
                  ELSE download_athan(athans, choosen_athan, o)
             plays == d.exc = "none" /\ d.ret
             played == IF ~plays THEN "none" ELSE IF playOk THEN "ok" ELSE "failed"
         IN /\ existed => o.kind = "complete"
            /\ athans' = d.athans
            /\ athan_sound' = IF plays THEN choosen_athan ELSE athan_sound
            /\ athan_dl' = Selection(choosen_athan, existed, o, d, played)
            /\ IF d.exc # "none"
               THEN Crash(d.exc) /\ UNCHANGED << now, window, emitted, last_fard, calls >>
               ELSE IF played = "failed"
               THEN Crash("PlaybackError") /\ UNCHANGED << now, window, emitted, last_fard, calls >>
               ELSE EndTick /\ UNCHANGED fault
    /\ UNCHANGED << clock, settings, mute, files, location_api, save_loc_check,
                    UPCOMING_PRAYERS, api_res, gmLocals, gm_ret, current_month_data,
                    end_of_month_hijri, win2_active, toggle_graphic, downloads >>

\* Lines 466-472: the month and year of the mon_d-th download, given the
\* year of the download before it.
DownloadMon(mon_d, month) ==
    LET r == (mon_d + month) % MonthsPerYear
    IN IF r = 0 THEN MonthsPerYear ELSE r
DownloadYearStrict(mon_d, month, year, download_year) ==
    LET r == (mon_d + month) % MonthsPerYear
    IN IF r = 0 THEN download_year
       ELSE IF r < month THEN year + 1 ELSE download_year
DownloadYear(mon_d, month, year, download_year) ==
    LET r == (mon_d + month) % MonthsPerYear
    IN IF r = 0 THEN download_year
       ELSE IF r <= month THEN year + 1 ELSE download_year

\* Lines 467-480: the downloads from the mon_d-th on; every request of one
\* run of the handler meets the same network outcome o.  The results are
\* dropped; an exception ends the loop.
RECURSIVE DownloadFrom(_, _, _, _, _)
DownloadFrom(mon_d, download_year, fs, log, o) ==
    IF mon_d > MonthsPerYear
    THEN [files |-> fs, calls |-> log, exc |-> "none"]
    ELSE LET y == DownloadYear(mon_d, MonthOf(now), YearOf(now), download_year)
             m == DownloadMon(mon_d, MonthOf(now))
             r == fetch_calender_data(fs, settings.city, settings.country, y, m, o)
             log2 == Append(log, Call("prefetch", o, fs, r))
         IN IF r.exc # "none"
            THEN [files |-> r.files, calls |-> log2, exc |-> r.exc]
            ELSE DownloadFrom(mon_d + 1, y, r.files, log2, o)

\* Lines 465-481: Download next 12 months data.
SettingsDownload ==
    /\ pc = "events2"
    /\ gap' = 0
    /\ downloads < MaxDownloads
    /\ downloads' = downloads + 1
    /\ UNCHANGED audioVars
    /\ \E o \in NetOutcomes :
         \E d \in { DownloadFrom(1, YearOf(now), files, << >>, o) } :
            /\ files' = d.files
            /\ calls' = d.calls
            /\ IF d.exc # "none"
               THEN /\ Crash(d.exc)
                    /\ UNCHANGED << now, window, emitted, last_fard >>
               ELSE /\ pc' = "loop"
                    /\ now' = 0
                    /\ window' = NoWindow
                    /\ emitted' = << >>
                    /\ last_fard' = NoFard
                    /\ UNCHANGED fault
    /\ UNCHANGED << clock, settings, mute, location_api, save_loc_check,
                    UPCOMING_PRAYERS, api_res, gmLocals, gm_ret, current_month_data,
                    end_of_month_hijri, win2_active, toggle_graphic >>

Next ==
    \/ Advance
    \/ Start \/ StartSaved
    \/ LocationOk \/ LocationUseCurrent \/ LocationCancel
    \/ GM_Enter \/ GM_IshaCheck \/ GM_NewMonth \/ GM_Bind
    \/ LoopTop \/ Rollover \/ Display
    \/ EventNone \/ EventExit

Spec == Init /\ [][Next]_vars

\* The same program with the settings window opened and its download
\* button used, started at the Asr of the last day of the month with a saved
\* or a new location and no month file.
LastDayStart == (DaysInMonth - 1) * TicksPerDay + 4 * Sub

InitSettings ==
    InitWith(LastDayStart, {NoSettings, SettingsOf(<< "Cairo", "Egypt" >>)}, { NoFiles })

NextSettings ==
    \/ Next
    \/ EventSettings \/ SettingsNone \/ SettingsDownload

SpecSettings == InitSettings /\ [][NextSettings]_vars

\* The same program with the settings window opened, its toggles used and
\* closed again.
NextToggles ==
    \/ Next
    \/ EventSettings \/ SettingsNone
    \/ SettingsDone \/ SettingsToggleGraphic \/ SettingsToggleMute

SpecToggles == InitSettings /\ [][NextToggles]_vars

\* The same program with the settings window opened and an athan chosen in
\* its drop-down.
NextAthan ==
    \/ Next
    \/ EventSettings \/ SettingsNone \/ SettingsSelectAthan

SpecAthan == InitSettings /\ [][NextAthan]_vars

\* ================================================================ claims
\* The last fetch_calender_data call of the running handler.
LastCall == calls[Len(calls)]

\* The fetch_calender_data calls made by the step: a handler's step leaves
\* the clock alone; the start-up and window handlers and the download
\* button start the log anew, every other handler appends to it.
NewCalls ==
    IF clock' # clock THEN << >>
    ELSE IF pc \in {"saved_fetch", "choose_location"} \/ downloads' # downloads THEN calls'
    ELSE IF Len(calls') > Len(calls) THEN SubSeq(calls', Len(calls) + 1, Len(calls'))
    ELSE << >>

\* The names get_main_layout_and_tomorrow_prayers may enqueue.
SixNames == {"Fajr", "Sunrise", "Dhuhr", "Asr", "Maghrib", "Isha"}

\* The timings object at Python index i of a month schedule.
TimingsAt(res, i) == res.data[i + 1].timings

\* The entries of SixNames in a timings object, each bound to the date of
\* instant date, that are later than instant t.
SixLaterThan(timings, date, t) ==
    LET Bound(e) == [name |-> e.name,
                     time |-> strptime(e.time, DayOf(date), MonthOf(date), YearOf(date))]
        all == [i \in 1..Len(timings) |-> Bound(timings[i])]
    IN SelectSeq(all, LAMBDA e : e.name \in SixNames /\ e.time > t)

\* Today's Isha while get_main_layout_and_tomorrow_prayers runs: the Isha of
\* the schedule entry at index day - 1, bound to the date of its now.
IshaToday ==
    LET ts == TimingsAt(api_res, DayOf(gm_now) - 1)
        i == CHOOSE j \in 1..Len(ts) : ts[j].name = "Isha"
    IN strptime(ts[i].time, DayOf(gm_now), MonthOf(gm_now), YearOf(gm_now))

\* The step in which get_main_layout_and_tomorrow_prayers fills the queue.
FillsQueue == pc = "gm_bind" /\ pc' \in {"loop", "display"}

\* ---------------------------------------------------------------- C1
\* C1: UPCOMING_PRAYERS is non-empty wherever the main loop reads its front
\* entry: at the top of a tick (the elapsed test of line 303) and at the
\* time-remaining computation (line 329).
C1_QueueNonEmptyAtFrontRead ==
    pc \in {"loop", "display"} => UPCOMING_PRAYERS # << >>

\* ---------------------------------------------------------------- C2
\* C2: in one tick the front entry is removed iff now >= its timestamp:
\* when now is earlier the queue is unchanged and nothing is emitted; when
\* it is not, exactly the front entry is removed and the rest keep their
\* order.
C2_PopIffElapsed ==
    [][ (pc = "loop" /\ pc' # "loop" /\ UPCOMING_PRAYERS # << >>) =>
          IF now' >= UPCOMING_PRAYERS[1].time
          THEN /\ Len(UPCOMING_PRAYERS') = Len(UPCOMING_PRAYERS) - 1
               /\ \A i \in 1..Len(UPCOMING_PRAYERS') :
                     UPCOMING_PRAYERS'[i] = UPCOMING_PRAYERS[i + 1]
          ELSE /\ UPCOMING_PRAYERS' = UPCOMING_PRAYERS
               /\ emitted' = << >> ]_vars

\* A tick whose now was exactly the timestamp of Fajr has popped it: Fajr
\* is announced and Sunrise is the front.
C2_Witness ==
    /\ pc = "display"
    /\ emitted # << >>
    /\ emitted[1].name = "Fajr"
    /\ now = BindTo(1, now)
    /\ UPCOMING_PRAYERS # << >>
    /\ UPCOMING_PRAYERS[1].name = "Sunrise"

\* ---------------------------------------------------------------- C3
\* C3: when now is not later than today's Isha, the function leaves
\* ISHA_PASSED false and enqueues exactly the entries of Fajr, Sunrise,
\* Dhuhr, Asr, Maghrib, Isha of the schedule entry at index day - 1, bound
\* to today's date, whose timestamp is strictly later than now.
C3_TodayNotPassed ==
    [][ (FillsQueue /\ clock <= IshaToday) =>
          /\ ~ISHA_PASSED
          /\ UPCOMING_PRAYERS' =
               UPCOMING_PRAYERS \o
               SixLaterThan(TimingsAt(api_res, DayOf(gm_now) - 1), gm_now, gm_now) ]_vars

\* A start between Dhuhr and Asr has enqueued Asr, Maghrib and Isha of today.
C3_Witness ==
    /\ pc = "loop"
    /\ calls # << >>
    /\ Len(UPCOMING_PRAYERS) = 3
    /\ UPCOMING_PRAYERS[1].name = "Asr"
    /\ UPCOMING_PRAYERS[3].name = "Isha"
    /\ UPCOMING_PRAYERS[1].time = BindTo(4, clock)
    /\ clock < UPCOMING_PRAYERS[1].time

\* ---------------------------------------------------------------- C4
\* C4: when now is later than today's Isha and tomorrow is in the same
\* month, the function sets ISHA_PASSED and enqueues all six of Fajr,
\* Sunrise, Dhuhr, Asr, Maghrib, Isha of the next day's entry of the same
\* schedule, each bound to tomorrow's date; none is dated today.
C4_TomorrowSameMonth ==
    [][ (FillsQueue /\ clock > IshaToday /\ ~IsLastDayOfMonth(gm_now)) =>
          LET new == SubSeq(UPCOMING_PRAYERS', Len(UPCOMING_PRAYERS) + 1,
                            Len(UPCOMING_PRAYERS'))
              next == TimingsAt(api_res, DayOf(gm_now))
          IN /\ ISHA_PASSED
             /\ UPCOMING_PRAYERS' = UPCOMING_PRAYERS \o new
             /\ new = SixLaterThan(next, PlusOneDay(gm_now), gm_now)
             /\ { new[i].name : i \in 1..Len(new) } = SixNames
             /\ Len(new) = Cardinality(SixNames)
             /\ \A i \in 1..Len(new) :
                   /\ DayOf(new[i].time) = DayOf(gm_now) + 1
                   /\ MonthOf(new[i].time) = MonthOf(gm_now)
                   /\ YearOf(new[i].time) = YearOf(gm_now) ]_vars

\* A start in Cairo after the Isha of the first day of the month has enqueued
\* the six entries of the second day while it is still the first day.
C4_Witness ==
    /\ pc = "loop"
    /\ calls # << >>
    /\ DayOf(clock) = 1
    /\ settings.city = "Cairo"
    /\ clock > BindTo(6, clock)
    /\ Len(UPCOMING_PRAYERS) = 6
    /\ \A i \in 1..6 : /\ DayOf(UPCOMING_PRAYERS[i].time) = 2
                       /\ MonthOf(UPCOMING_PRAYERS[i].time) = MonthOf(clock)

\* ---------------------------------------------------------------- C5
\* C5: past Isha on the last day of a month the function requests the
\* schedule of tomorrow's (year, month) exactly once; the file of today's
\* (year, month) is deleted only in a later step, after that request
\* returned a schedule; a failed request leaves the old file in place.
C5_NewMonthThenDelete ==
    [][ /\ (pc = "gm_isha" /\ clock' = clock /\ clock > IshaToday
              /\ IsLastDayOfMonth(gm_now)) =>
             /\ Len(NewCalls) = 1
             /\ NewCalls[1].site = "new_month"
             /\ NewCalls[1].key =
                  << YearOf(PlusOneDay(gm_now)), MonthOf(PlusOneDay(gm_now)),
                     settings.city, settings.country >>
             /\ Cardinality({ i \in 1..Len(calls') : calls'[i].site = "new_month" }) = 1
             /\ DOMAIN files \subseteq DOMAIN files'
        /\ (\E n \in 1..Len(NewCalls) : NewCalls[n].site = "new_month") =>
             pc = "gm_isha" /\ clock > IshaToday /\ IsLastDayOfMonth(gm_now)
        /\ (DOMAIN files \ DOMAIN files' # {}) =>
             /\ pc = "gm_new_month"
             /\ NewCalls = << >>
             /\ calls # << >>
             /\ LastCall.site = "new_month"
             /\ IsSchedule(LastCall.ret)
             /\ api_res = LastCall.ret
             /\ DOMAIN files \ DOMAIN files' =
                  { << YearOf(gm_now), MonthOf(gm_now), settings.city, settings.country >> }
        /\ (pc \in {"gm_isha", "gm_new_month"} /\ pc' \in {"sys_exit", "crashed"}
              /\ calls' # << >>
              /\ calls'[Len(calls')].site = "new_month"
              /\ ~IsSchedule(calls'[Len(calls')].ret)) =>
             /\ DOMAIN files \subseteq DOMAIN files'
             /\ << YearOf(gm_now), MonthOf(gm_now), settings.city, settings.country >>
                  \in DOMAIN files' ]_vars

\* A month-boundary rollover has fetched the new month and deleted the file
\* of the old one.
C5_Witness ==
    /\ pc = "gm_bind"
    /\ ISHA_PASSED
    /\ calls # << >>
    /\ LastCall.site = "new_month"
    /\ IsSchedule(LastCall.ret)
    /\ LastCall.key \in DOMAIN files
    /\ << YearOf(gm_now), MonthOf(gm_now), settings.city, settings.country >>
         \notin DOMAIN files

\* ---------------------------------------------------------------- C6
\* C6: fetch_calender_data makes a network request iff no file exists for
\* the key; after a successful request the file holds the response verbatim;
\* a call that finds the file makes no request, leaves the file as it is and
\* returns the schedule that text parses to.
C6_RequestIffNoFile ==
    [][ \A n \in 1..Len(NewCalls) :
          LET c == NewCalls[n]
              text == ResText(c.key[3], c.key[1], c.key[2], c.outcome)
          IN /\ c.requested <=> ~c.existed
             /\ (~c.existed /\ IsSchedule(c.ret)) =>
                  /\ c.key \in DOMAIN files'
                  /\ files'[c.key] = text
                  /\ c.ret = Schedule(MonthJson(c.key[3], c.key[1], c.key[2]))
             /\ (c.existed /\ c.key \in DOMAIN files) =>
                  /\ c.key \in DOMAIN files'
                  /\ files'[c.key] = files[c.key]
                  /\ c.exc = "none" =>
                       c.ret = Schedule(MonthJson(files[c.key].city, files[c.key].year,
                                                  files[c.key].month)) ]_vars

\* The rollover of the first day of January finds the file the session
\* itself wrote at the month boundary, and makes no request.
C6_Witness ==
    /\ calls # << >>
    /\ LastCall.site = "rollover"
    /\ LastCall.key[2] = 1
    /\ LastCall.existed
    /\ ~LastCall.requested
    /\ IsSchedule(LastCall.ret)

\* ---------------------------------------------------------------- C7
\* C7: on a cache miss, a request that raises returns 'RequestError' and a
\* response whose status is not 200 returns None, two different values, and
\* in both cases the set of cached keys is unchanged.
C7_FailureValuesNoFile ==
    [][ \A n \in 1..Len(NewCalls) :
          LET c == NewCalls[n]
          IN /\ (~c.existed /\ c.outcome = "raise") =>
                  c.ret = Failure(RequestError) /\ c.exc = "none"
             /\ (~c.existed /\ c.outcome = "non200") =>
                  c.ret = Failure(None) /\ c.exc = "none"
             /\ Failure(RequestError) # Failure(None)
             /\ (~c.existed /\ c.outcome \in {"raise", "non200"}) =>
                  /\ c.key \notin DOMAIN files'
                  /\ Len(NewCalls) = 1 => DOMAIN files' = DOMAIN files ]_vars

\* The choose-location window after a request answered with a status
\* other than 200.
C7_Witness ==
    /\ pc = "choose_location"
    /\ calls # << >>
    /\ ~LastCall.existed
    /\ LastCall.outcome = "non200"
    /\ LastCall.ret = Failure(None)

\* ---------------------------------------------------------------- C8
\* C8: once the next-month fetch of a month-boundary rollover has returned
\* 'RequestError' or None and the function has gone on from it, the city and
\* country entries are deleted and the session has ended by sys.exit, the
\* queue not refilled.
C8_NewMonthFailureAborts ==
    (/\ calls # << >>
     /\ LastCall.site = "new_month"
     /\ LastCall.exc = "none"
     /\ LastCall.ret \in {Failure(RequestError), Failure(None)}
     /\ pc # "gm_new_month")
    => (pc = "sys_exit" /\ settings = NoSettings)

\* ---------------------------------------------------------------- C9
\* C9 as stated: whatever the path, the city and country entries are the
\* same after a fetch_calender_data call that returned 'RequestError' as
\* before it.
C9_RequestErrorKeepsSettings ==
    [][ \A n \in 1..Len(NewCalls) :
          NewCalls[n].ret = Failure(RequestError) => settings' = settings ]_vars

\* C9 amended: on every path but the next-month fetch of a month-boundary
\* rollover (start-up, choose-location window, rollover of the loop, Hijri
\* fallback, 12-month download) the city and country entries are the same
\* after a call that returned 'RequestError' as before it; after the
\* next-month fetch they are deleted.
C9_RequestErrorKeepsSettingsButNewMonth ==
    [][ \A n \in 1..Len(NewCalls) :
          NewCalls[n].ret = Failure(RequestError) =>
             IF NewCalls[n].site = "new_month"
             THEN settings' = NoSettings
             ELSE settings' = settings ]_vars

\* The download button was pressed with the network down: twelve calls
\* returned 'RequestError' and the saved location is still there.
C9_Witness ==
    /\ downloads > 0
    /\ Len(calls) = MonthsPerYear
    /\ LastCall.site = "prefetch"
    /\ \A i \in 1..Len(calls) : calls[i].ret = Failure(RequestError)
    /\ settings = SettingsOf(<< "Cairo", "Egypt" >>)

\* --------------------------------------------------------------- C10
\* C10: in the choose-location window the city and country entries are
\* written only in a step whose fetch returned a schedule for that location;
\* after a None or a 'RequestError' the window stays open, nothing is
\* persisted and the main loop is not started.
C10_PersistOnlyAfterSchedule ==
    [][ (pc = "choose_location" /\ clock' = clock) =>
          /\ settings = NoSettings
          /\ settings' # settings =>
               /\ calls' # << >>
               /\ IsSchedule(calls'[1].ret)
               /\ settings' = [city |-> calls'[1].key[3], country |-> calls'[1].key[4]]
          /\ (calls' # << >> /\ calls'[1].exc = "none"
                /\ calls'[1].ret \in {Failure(None), Failure(RequestError)}) =>
               /\ pc' = "choose_location"
               /\ settings' = NoSettings
               /\ save_loc_check' = save_loc_check
               /\ UPCOMING_PRAYERS' = << >> ]_vars

\* The choose-location window, still open after a request that raised,
\* with nothing persisted.
C10_Witness ==
    /\ pc = "choose_location"
    /\ calls # << >>
    /\ LastCall.ret = Failure(RequestError)
    /\ LastCall.exc = "none"
    /\ settings = NoSettings

\* --------------------------------------------------------------- C11
\* C11: at start-up with a saved location, get_main_layout_and_tomorrow_prayers
\* is entered only with a month schedule: a None or a 'RequestError' of the
\* initial fetch is never handed to it.
C11_SavedStartupFailureNotPassed ==
    (pc = "gm_enter" /\ calls # << >> /\ LastCall.site = "saved") => IsSchedule(api_res)

\* --------------------------------------------------------------- C12
\* C12: UPCOMING_PRAYERS is strictly increasing by timestamp in every state,
\* whatever day schedule the service returned.
C12_QueueStrictlyIncreasing ==
    \A i \in 1..(Len(UPCOMING_PRAYERS) - 1) :
       UPCOMING_PRAYERS[i].time < UPCOMING_PRAYERS[i + 1].time

\* --------------------------------------------------------------- C13
\* What the tick has emitted, by kind.
EmittedKinds(seq) == { seq[i].kind : i \in 1..Len(seq) }

\* C13: when an entry is popped, a notification is emitted iff its name is
\* one of the five canonical prayers, and play_selected_athan is called iff
\* in addition the mute flag is false; popping Sunrise emits nothing.
C13_EmitOnPop ==
    [][ (pc = "loop" /\ Len(UPCOMING_PRAYERS') < Len(UPCOMING_PRAYERS)) =>
          LET fard == UPCOMING_PRAYERS[1]
              kinds == EmittedKinds(emitted')
          IN /\ "notify" \in kinds <=> fard.name \in FUROOD_NAMES
             /\ (kinds \cap {"athan", "athan_failed"} # {}) <=>
                  (fard.name \in FUROOD_NAMES /\ ~mute)
             /\ fard.name = "Sunrise" => emitted' = << >>
             /\ \A i \in 1..Len(emitted') : emitted'[i].name = fard.name
             /\ Len(emitted') <= 2 ]_vars

\* A canonical prayer was popped while the athan was muted: the
\* notification alone was emitted.
C13_Witness ==
    /\ mute
    /\ pc \in {"display", "rollover"}
    /\ Len(emitted) = 1
    /\ emitted[1].kind = "notify"
    /\ emitted[1].name \in FUROOD_NAMES

\* --------------------------------------------------------------- C14
\* C14: a failure of play_selected_athan never ends the session: after a
\* failed playback for an athan chosen in the settings window the tick has
\* ended and the loop goes on, and no process ends with the playback's
\* exception.
C14_PlaybackFailureNotFatal ==
    /\ fault # "PlaybackError"
    /\ athan_dl.played = "failed" => pc = "loop"

\* --------------------------------------------------------------- C15
\* C15: a call that finds a file for its key, malformed or not, while the
\* service would answer with the month's calendar, returns a schedule and
\* raises nothing.
C15_MalformedFileRefetched ==
    (calls # << >> /\ LastCall.existed /\ LastCall.outcome = "ok") =>
       (IsSchedule(LastCall.ret) /\ LastCall.exc = "none")

\* --------------------------------------------------------------- C16
\* C16: after a download that was cancelled or broke once the file had
\* been opened, the file is not in ATHANS_DIR; the file is there after
\* download_athan only if every chunk was written, and no other file of
\* the directory is touched.
C16_NoTruncatedAthan ==
    [][ (pc = "events2" /\ athan_dl' # NoSelection /\ ~athan_dl'.existed) =>
          LET name == athan_dl'.name
          IN /\ athan_dl'.outcome \in {"cancel", "stream_error"} =>
                  /\ name \notin DOMAIN athans'
                  /\ athan_dl'.downloaded = "False"
             /\ name \in DOMAIN athans' =>
                  /\ athans'[name] = TotalChunks
                  /\ athan_dl'.outcome = "complete"
             /\ \A f \in DOMAIN athans : f \in DOMAIN athans' /\ athans'[f] = athans[f] ]_vars

\* Cancel was pressed after the first of the chunks was written:
\* download_athan returned False and the file is gone.
C16_Witness ==
    /\ pc = "loop"
    /\ athan_dl.outcome = "cancel"
    /\ athan_dl.written = 1
    /\ athan_dl.written < TotalChunks
    /\ athan_dl.downloaded = "False"
    /\ athan_dl.name \notin DOMAIN athans

\* --------------------------------------------------------------- C17
\* C17: every call of download_athan returns True or False, whatever the
\* download came to, and raises nothing into the loop.
C17_DownloadReturnsBoolean ==
    (athan_dl # NoSelection /\ ~athan_dl.existed) =>
       /\ athan_dl.exc = "none"
       /\ athan_dl.downloaded \in {"True", "False"}
       /\ athan_dl.downloaded = "True" <=> athan_dl.outcome = "complete"
       /\ (pc # "crashed" \/ athan_dl.played = "failed")

\* --------------------------------------------------------------- C18
\* The loop's rollover is pending: the tick is between the pop that emptied
\* the queue and the return of get_main_layout_and_tomorrow_prayers.
RolloverPending ==
    \/ pc = "rollover"
    \/ (pc \in {"gm_enter", "gm_isha", "gm_new_month", "gm_bind"} /\ gm_ret = "loop")

\* C18: the loop's rollover begins only with a pop that empties the queue
\* and ends only with the refill or with the end of the session; the
\* function always appends to an empty queue, and the queue never holds
\* more than six entries or two entries of one name.
C18_RolloverOnlyWhenEmptied ==
    [][ /\ (~RolloverPending /\ RolloverPending') =>
             /\ pc = "loop"
             /\ Len(UPCOMING_PRAYERS) = 1
             /\ UPCOMING_PRAYERS' = << >>
        /\ RolloverPending => UPCOMING_PRAYERS = << >>
        /\ (RolloverPending /\ ~RolloverPending') =>
             (pc = "gm_bind" /\ pc' = "display") \/ pc' \in {"crashed", "sys_exit"}
        /\ FillsQueue => UPCOMING_PRAYERS = << >>
        /\ Len(UPCOMING_PRAYERS') <= Cardinality(SixNames)
        /\ \A i, j \in 1..Len(UPCOMING_PRAYERS') :
               UPCOMING_PRAYERS'[i].name = UPCOMING_PRAYERS'[j].name => i = j ]_vars

\* The rollover of the loop has refilled the emptied queue with the six
\* entries of the next day.
C18_Witness ==
    /\ pc = "display"
    /\ gm_ret = "loop"
    /\ calls # << >>
    /\ calls[1].site = "rollover"
    /\ Len(UPCOMING_PRAYERS) = 6
    /\ UPCOMING_PRAYERS[1].name = "Fajr"

\* --------------------------------------------------------------- C19
\* C19: a step of the loop that reads the front of an empty queue (the
\* elapsed test, the time remaining) ends the process with IndexError:
\* nothing is popped, emitted or put in the window after it.
C19_EmptyFrontRaises ==
    [][ (pc \in {"loop", "display"} /\ clock' = clock /\ UPCOMING_PRAYERS = << >>) =>
          /\ pc' = "crashed"
          /\ fault' = "IndexError"
          /\ UPCOMING_PRAYERS' = << >>
          /\ window' = window
          /\ emitted' = emitted ]_vars

\* The process has ended with IndexError on an empty queue, before
\* anything was put in the window.
C19_Witness ==
    /\ pc = "crashed"
    /\ fault = "IndexError"
    /\ UPCOMING_PRAYERS = << >>
    /\ window = NoWindow

\* --------------------------------------------------------------- C20
\* The key of the month after the month of key k, for the same location.
MonthAfter(k) ==
    IF k[2] = MonthsPerYear THEN << k[1] + 1, 1, k[3], k[4] >>
    ELSE << k[1], k[2] + 1, k[3], k[4] >>

\* C20: a month superseded by the month-boundary rollover stays evicted: no
\* step creates the file of a month while the file of the month after it,
\* which the rollover fetched before deleting the old one, is there.
C20_SupersededMonthStaysEvicted ==
    [][ \A k \in DOMAIN files' \ DOMAIN files : MonthAfter(k) \notin DOMAIN files ]_vars

\* --------------------------------------------------------------- C21
\* C21: when the pop/rollover step of a tick is over (the tick is at line
\* 329 or past it), the front entry is strictly later than now and the time
\* remaining shown is positive, however many queued timestamps have elapsed
\* since the tick before.
C21_FrontLaterThanNow ==
    /\ (pc = "display" /\ UPCOMING_PRAYERS # << >>) => UPCOMING_PRAYERS[1].time > now
    /\ pc \in {"events", "events2"} => window.time_d > 0

\* --------------------------------------------------------------- C22
\* The schedule of the month that contains the loop's now, for the saved
\* location.
ScheduleOfNow == Schedule(MonthJson(settings.city, YearOf(now), MonthOf(now)))

\* The tick shows the Hijri date (lines 340-351).
ShowsHijri == pc = "display" /\ pc' = "events"

\* C22: the Hijri date a tick shows is the entry at index now.day - 1 of the
\* schedule of the month that contains now: it comes from current_month_data
\* when now and the front entry are in the same month, and otherwise from a
\* fetch of now's month that is made only while no Hijri date is kept from
\* an earlier tick, a kept date being dropped only by a tick whose now and
\* front entry are in the same month again, or with the session.
C22_HijriFromMonthOfNow ==
    [][ /\ ShowsHijri =>
             /\ window'.today_hijri = get_hijri_date_from_json(now, ScheduleOfNow)
             /\ MonthOf(now) = MonthOf(UPCOMING_PRAYERS[1].time) =>
                    /\ current_month_data = ScheduleOfNow
                    /\ NewCalls = << >>
        /\ (pc = "display" /\ NewCalls # << >>) =>
             /\ end_of_month_hijri = NoHijri
             /\ MonthOf(now) # MonthOf(UPCOMING_PRAYERS[1].time)
             /\ Len(NewCalls) = 1
             /\ NewCalls[1].key = json_month_file(settings.city, settings.country,
                                                  YearOf(now), MonthOf(now))
             /\ ShowsHijri => end_of_month_hijri' # NoHijri
        /\ (end_of_month_hijri # NoHijri /\ end_of_month_hijri' = NoHijri) =>
             \/ pc' = "done"
             \/ pc = "display" /\ MonthOf(now) = MonthOf(UPCOMING_PRAYERS[1].time) ]_vars

\* --------------------------------------------------------------- C23
\* display_main_window is running: the session is between the first tick
\* and its end.
InSession ==
    \/ pc \in {"loop", "rollover", "display", "events", "events2"}
    \/ pc \in {"gm_enter", "gm_isha", "gm_new_month", "gm_bind"} /\ gm_ret = "loop"

\* Lines 604-608: a KeyboardInterrupt raised anywhere in display_main_window
\* is caught by the module, which calls sys.exit() at once; lines 610-613
\* are not reached.  The process ends, and with it everything it held in
\* memory.
KeyboardInterrupt ==
    /\ InSession
    /\ pc' = "sys_exit"
    /\ gap' = 0
    /\ location_api' = LocError
    /\ save_loc_check' = FALSE
    /\ UPCOMING_PRAYERS' = << >>
    /\ api_res' = Failure(None)
    /\ gm_now' = 0
    /\ current_times' = << >>
    /\ ISHA_PASSED' = FALSE
    /\ now' = 0
    /\ current_month_data' = Failure(None)
    /\ end_of_month_hijri' = NoHijri
    /\ win2_active' = FALSE
    /\ toggle_graphic' = FALSE
    /\ window' = NoWindow
    /\ emitted' = << >>
    /\ last_fard' = NoFard
    /\ calls' = << >>
    /\ UNCHANGED << fault, clock, settings, mute, files, gm_ret, downloads, audioVars >>

\* The program with the settings window's toggles, run from a console that
\* can interrupt it.
NextInterrupt ==
    \/ NextToggles
    \/ KeyboardInterrupt

SpecInterrupt == InitSettings /\ [][NextInterrupt]_vars

\* The session ends with the step: by Exit, by sys.exit() or by an uncaught
\* exception.
SessionEnds == InSession /\ pc' \in {"done", "sys_exit", "crashed"}

\* C23: when the session ends while save_loc_check is false (the check-box
\* was unticked, or the toggle was switched off and the settings window
\* closed), the city and country entries are gone however it ends; when it
\* is true, Exit leaves the entries as they were.
C23_UnsavedLocationDeletedAtEnd ==
    [][ SessionEnds =>
          /\ ~save_loc_check => settings' = NoSettings
          /\ (save_loc_check /\ pc' = "done") => settings' = settings ]_vars

\* --------------------------------------------------------------- C24
\* The session is started at the Asr of the last day of any of the first
\* StartMonths months from Epoch, so that the download button is pressed in
\* every month of the year.
StartMonths == 12

InitPrefetch ==
    \E k \in 0..(StartMonths - 1) :
        InitWith(k * DaysInMonth * TicksPerDay + LastDayStart,
                 {NoSettings, SettingsOf(<< "Cairo", "Egypt" >>)}, { NoFiles })

SpecPrefetch == InitPrefetch /\ [][NextSettings]_vars

\* The (year, month) that follows (y, m) by i months.
MonthsAfter(y, m, i) ==
    LET n == y * MonthsPerYear + (m - 1) + i
    IN [year |-> n \div MonthsPerYear, month |-> (n % MonthsPerYear) + 1]

\* The step is a press of the download button.
PressesDownload == pc = "events2" /\ downloads' # downloads

\* C24: a press of the download button in month m of year y calls
\* fetch_calender_data for the months that follow (y, m), in order and each
\* once: the i-th call is for the i-th month after (y, m), with the year
\* y + 1 exactly for the months after December of y, and unless a call
\* raises there are twelve calls, the last for (y + 1, m).
C24_NextTwelveMonths ==
    [][ PressesDownload =>
          /\ \A i \in 1..Len(calls') :
                LET k == MonthsAfter(YearOf(now), MonthOf(now), i)
                IN /\ calls'[i].site = "prefetch"
                   /\ calls'[i].key = json_month_file(settings.city, settings.country,
                                                      k.year, k.month)
                   /\ k.year = (IF i + MonthOf(now) > MonthsPerYear
                                THEN YearOf(now) + 1 ELSE YearOf(now))
          /\ pc' # "crashed" =>
                /\ Len(calls') = MonthsPerYear
                /\ calls'[MonthsPerYear].key =
                       json_month_file(settings.city, settings.country,
                                       YearOf(now) + 1, MonthOf(now)) ]_vars

\* The button has been pressed in a January: the twelve calls are over, the
\* eleventh was for December of the same year and the twelfth for January
\* of the next.
C24_Witness ==
    /\ pc = "loop"
    /\ downloads > 0
    /\ Len(calls) = MonthsPerYear
    /\ calls[MonthsPerYear].key[2] = 1
    /\ calls[MonthsPerYear - 1].key[2] = MonthsPerYear
    /\ calls[MonthsPerYear].key[1] = calls[MonthsPerYear - 1].key[1] + 1

\* --------------------------------------------------------------- C25
\* The loop of display_main_window ticks for as long as the session lasts
\* (line 300, with the 100 ms timeout of line 357), every call it makes
\* returns, and the clock advances; what the user does is under no
\* fairness.
Ticking ==
    /\ WF_vars(LoopTop) /\ WF_vars(Rollover) /\ WF_vars(Display) /\ WF_vars(EventNone)
    /\ WF_vars(GM_Enter) /\ WF_vars(GM_IshaCheck) /\ WF_vars(GM_NewMonth)
    /\ WF_vars(GM_Bind)
    /\ SF_vars(Advance)

SpecFair == Init /\ [][Next]_vars /\ Ticking

\* The step pops the front entry (line 305).
PopsFront ==
    /\ pc = "loop"
    /\ UPCOMING_PRAYERS # << >>
    /\ UPCOMING_PRAYERS' = Tail(UPCOMING_PRAYERS)

\* The process has ended.
Ended == pc \in {"done", "sys_exit", "crashed"}

\* The front entry can elapse before the clock reaches Horizon.
FrontDue ==
    /\ InSession
    /\ UPCOMING_PRAYERS # << >>
    /\ UPCOMING_PRAYERS[1].time <= Truncate(Horizon - 1)

\* The Fajr of the day after instant t in the schedule of the saved location.
FajrOfDayAfter(t) ==
    LET d == PlusOneDay(t)
        json == MonthJson(settings.city, YearOf(d), MonthOf(d))
    IN strptime(TimingOf(json.data[DayOf(d)].timings, "Fajr"),
                DayOf(d), MonthOf(d), YearOf(d))

\* No fetch_calender_data call of the running tick has failed.
NoFetchFailed(log) ==
    \A i \in 1..Len(log) : log[i].exc = "none" /\ IsSchedule(log[i].ret)

\* An entry leaves the queue only as the front popped by a tick, or with
\* the process, and never before its timestamp; an entry placed is later
\* than the now of the call that places it, so none is placed again after
\* its pop.
PoppedOnceNotEarly ==
    [][ /\ (UPCOMING_PRAYERS' # UPCOMING_PRAYERS /\ ~FillsQueue /\ ~Ended') =>
             /\ PopsFront
             /\ now' >= UPCOMING_PRAYERS[1].time
        /\ FillsQueue =>
             \A i \in (Len(UPCOMING_PRAYERS) + 1)..Len(UPCOMING_PRAYERS') :
                 UPCOMING_PRAYERS'[i].time > gm_now ]_vars

\* A tick has just popped an entry.
JustPopped == last_fard # NoFard

\* Every front entry that the clock can reach is popped, unless the process
\* ends first.
EventuallyPopped ==
    (FrontDue /\ ~JustPopped) ~> (JustPopped \/ Ended)

\* The tick that pops Isha and empties the queue ends, unless a fetch
\* fails, with the Fajr of the day after that Isha at the front.
FajrAfterIsha ==
    [][ (RolloverPending /\ last_fard.name = "Isha" /\ ~RolloverPending') =>
          \/ ~NoFetchFailed(calls')
          \/ /\ pc' = "display"
             /\ UPCOMING_PRAYERS' # << >>
             /\ UPCOMING_PRAYERS'[1] =
                   [name |-> "Fajr", time |-> FajrOfDayAfter(last_fard.time)] ]_vars

\* C25: with the loop ticking and the clock advancing, every entry placed
\* in UPCOMING_PRAYERS is eventually popped, once and not before its
\* timestamp, and unless a fetch fails the tick that empties the queue ends
\* with the Fajr of the day after the popped Isha at the front.
C25_PoppedAndRefilled ==
    /\ PoppedOnceNotEarly
    /\ EventuallyPopped
    /\ FajrAfterIsha

====
